---- MODULE Spec2Model ----
(***************************************************************************)
(* Model of Libraries.py: FileDownloader (header precautions, streamed     *)
(* download to a ".temp" file, SHA-256 duplicate detection, promotion by   *)
(* rename) and the caller loop of main().                                  *)
(*                                                                         *)
(* Strings are sequences of one-character strings.  File contents are      *)
(* sequences of chunks (small naturals).  The absent header / the None     *)
(* value of Python is the model value None.                                *)
(***************************************************************************)
EXTENDS Integers, Sequences, FiniteSets, TLC

\* ------------------------------------------------------------------ bounds
\* number of download_file invocations the caller makes in one run
MaxInvocations == 3
\* number of invocations in the single-resource specification
MaxProbeInvocations == 2

\* ------------------------------------------------------- string primitives
\* Python's None (an absent header, a failed hash): a string no header,
\* filename or digest can be, since its only element is not one character
None == <<"None">>

\* str.startswith
StartsWith(s, p) == Len(s) >= Len(p) /\ SubSeq(s, 1, Len(p)) = p

\* str.endswith
EndsWith(s, p) == Len(s) >= Len(p) /\ SubSeq(s, Len(s) - Len(p) + 1, Len(s)) = p

\* str.find, 1-based; 0 when p does not occur in s
Find(s, p) ==
    LET hits == {i \in 1..(Len(s) - Len(p) + 1) : SubSeq(s, i, i + Len(p) - 1) = p}
    IN  IF hits = {} THEN 0 ELSE CHOOSE i \in hits : \A j \in hits : i <= j

\* the "in" operator on strings
Contains(s, p) == Find(s, p) # 0

\* str.split(sep): the pieces between the non-overlapping occurrences of sep
RECURSIVE Split(_, _)
Split(s, sep) ==
    LET i == Find(s, sep)
    IN  IF i = 0 THEN <<s>>
        ELSE <<SubSeq(s, 1, i - 1)>> \o Split(SubSeq(s, i + Len(sep), Len(s)), sep)

\* str.strip(chars): drops leading and trailing characters that are in chars
Strip(s, chars) ==
    LET keep == {i \in 1..Len(s) : s[i] \notin chars}
        lo   == CHOOSE i \in keep : \A j \in keep : i <= j
        hi   == CHOOSE i \in keep : \A j \in keep : i >= j
    IN  IF keep = {} THEN <<>> ELSE SubSeq(s, lo, hi)

AsciiDigits == {"0", "1", "2", "3", "4", "5", "6", "7", "8", "9"}
\* characters of a latin-1 decoded header for which str.isdigit() is true
\* but which int() does not accept
SuperscriptDigits == {"^1", "^2", "^3"}

DigitValue(c) ==
    CASE c = "0" -> 0 [] c = "1" -> 1 [] c = "2" -> 2 [] c = "3" -> 3
      [] c = "4" -> 4 [] c = "5" -> 5 [] c = "6" -> 6 [] c = "7" -> 7
      [] c = "8" -> 8 [] c = "9" -> 9

\* str.isdigit
IsDigit(s) == Len(s) > 0 /\ \A i \in 1..Len(s) : s[i] \in AsciiDigits \cup SuperscriptDigits

RECURSIVE DecimalValue(_)
DecimalValue(s) ==
    IF s = <<>> THEN 0
    ELSE 10 * DecimalValue(SubSeq(s, 1, Len(s) - 1)) + DigitValue(s[Len(s)])

\* int(s) for a string on which isdigit() holds: the value, or raised
\* (a ValueError) when a character is not a decimal digit
ParseInt(s) ==
    IF \A i \in 1..Len(s) : s[i] \in AsciiDigits
    THEN [raised |-> FALSE, value |-> DecimalValue(s)]
    ELSE [raised |-> TRUE, value |-> 0]

\* ---------------------------------------------------------- string literals
s_filename_eq == <<"f", "i", "l", "e", "n", "a", "m", "e", "=">>
s_image       == <<"i", "m", "a", "g", "e", "/">>
s_temp        == <<".", "t", "e", "m", "p">>
s_default     == <<"d", "o", "w", "n", "l", "o", "a", "d", "e", "d", "_", "f", "i", "l", "e", ".", "j", "p", "g">>
s_exe         == <<".", "e", "x", "e">>
s_bat         == <<".", "b", "a", "t">>
s_sh          == <<".", "s", "h">>
s_js          == <<".", "j", "s">>
s_zero        == <<"0">>
QuoteChars    == {"\"", "'"}

\* FileDownloader.__init__: download_directory (the default of main())
download_directory == <<"F", "e", "t", "c", "h", "e", "d", "_", "I", "m", "a", "g", "e", "s">>

\* the size ceiling of Precaution 2
MaxContentLength == 20 * 1024 * 1024

\* the extension denylist of Precaution 3
DangerousExtensions == {s_exe, s_bat, s_sh, s_js}

\* ------------------------------------------------------------ _get_filename
\* the prefix of s before the first occurrence of the character c
CutAt(s, c) == IF Find(s, <<c>>) = 0 THEN s ELSE SubSeq(s, 1, Find(s, <<c>>) - 1)

\* index of the last occurrence of the character c in s, 0 when absent
RFind(s, c) ==
    LET hits == {i \in 1..Len(s) : s[i] = c}
    IN  IF hits = {} THEN 0 ELSE CHOOSE i \in hits : \A j \in hits : i >= j

\* urlparse(url).path: what follows the network location, without the
\* fragment, the query and the parameters of the last segment
UrlPath(url) ==
    LET rest   == SubSeq(url, Find(url, <<":", "/", "/">>) + 3, Len(url))
        hier   == CutAt(CutAt(rest, "#"), "?")
        slash  == Find(hier, <<"/">>)
        full   == IF slash = 0 THEN <<>> ELSE SubSeq(hier, slash, Len(hier))
        last   == RFind(full, "/")
        semis  == {i \in (last + 1)..Len(full) : full[i] = ";"}
        semi   == CHOOSE i \in semis : \A j \in semis : i <= j
    IN  IF semis = {} THEN full ELSE SubSeq(full, 1, semi - 1)

\* os.path.basename
Basename(p) == SubSeq(p, RFind(p, "/") + 1, Len(p))

\* os.path.join(a, b)
PathJoin(a, b) ==
    IF StartsWith(b, <<"/">>) THEN b
    ELSE IF a = <<>> \/ EndsWith(a, <<"/">>) THEN a \o b
    ELSE a \o <<"/">> \o b

\* _get_filename without the '.' test on the URL segment
GetFilenameAnySegment(headers, url) ==
    LET content_disposition == headers.cd
        from_url            == Basename(UrlPath(url))
    IN  IF content_disposition # None /\ content_disposition # <<>>
           /\ Contains(content_disposition, s_filename_eq)
        THEN Strip(Split(content_disposition, s_filename_eq)[2], QuoteChars)
        ELSE IF from_url = <<>>
        THEN s_default
        ELSE from_url

\* _get_filename taking the last piece of the split, [-1] for [1]
GetFilenameLastPiece(headers, url) ==
    LET content_disposition == headers.cd
        from_url            == Basename(UrlPath(url))
        pieces              == Split(content_disposition, s_filename_eq)
    IN  IF content_disposition # None /\ content_disposition # <<>>
           /\ Contains(content_disposition, s_filename_eq)
        THEN Strip(pieces[Len(pieces)], QuoteChars)
        ELSE IF from_url = <<>> \/ ~Contains(from_url, <<".">>)
        THEN s_default
        ELSE from_url

\* FileDownloader._get_filename(headers, url)
GetFilename(headers, url) ==
    LET content_disposition == headers.cd
        from_url            == Basename(UrlPath(url))
    IN  IF content_disposition # None /\ content_disposition # <<>>
           /\ Contains(content_disposition, s_filename_eq)
        THEN Strip(Split(content_disposition, s_filename_eq)[2], QuoteChars)
        ELSE IF from_url = <<>> \/ ~Contains(from_url, <<".">>)
        THEN s_default
        ELSE from_url

\* --------------------------------------------- precautions of download_file
\* headers.get(name, default)
HeaderGet(value, default) == IF value = None THEN default ELSE value

\* Precaution 1: the Content-Type test
TypeOk(headers) == StartsWith(HeaderGet(headers.ct, <<>>), s_image)

\* Precaution 2: content_length as the code computes it
ContentLength(headers) ==
    LET content_length_str == HeaderGet(headers.cl, s_zero)
    IN  IF IsDigit(content_length_str) THEN ParseInt(content_length_str)
        ELSE [raised |-> FALSE, value |-> 0]

\* Precaution 3 with '.js' missing from the tuple
DangerousNameWithoutJs(filename) ==
    \E e \in DangerousExtensions \ {s_js} : EndsWith(filename, e)

\* Precaution 3: filename.endswith(('.exe', '.bat', '.sh', '.js'))
DangerousName(filename) == \E e \in DangerousExtensions : EndsWith(filename, e)

\* Policy without Precaution 3 (the extension test forgotten)
PolicySkipsExtensionCheck(headers, url) ==
    IF ~TypeOk(headers) THEN "UnsupportedType"
    ELSE IF ContentLength(headers).raised THEN "ValueError"
    ELSE IF ContentLength(headers).value > MaxContentLength THEN "TooLarge"
    ELSE "Accept"

\* the decision the three precautions of download_file reach on a probe
Policy(headers, url) ==
    IF ~TypeOk(headers) THEN "UnsupportedType"
    ELSE IF ContentLength(headers).raised THEN "ValueError"
    ELSE IF ContentLength(headers).value > MaxContentLength THEN "TooLarge"
    ELSE IF DangerousName(GetFilename(headers, url)) THEN "DangerousExtension"
    ELSE "Accept"

\* hashlib.sha256(...).hexdigest() of a file content, modelled as a
\* collision-free digest: one hex digit per chunk after a leading digit
HexDigit(chunk) ==
    CASE chunk = 0 -> "0" [] chunk = 1 -> "a" [] chunk = 2 -> "b" [] chunk = 3 -> "c"
Sha256(content) == <<"e">> \o [i \in 1..Len(content) |-> HexDigit(content[i])]

\* ------------------------------------------------------ what the server has
\* A resource is one URL with the headers its HEAD returns (None: header
\* absent) and the chunks its GET streams.
Resource(url, ct, cl, cd, body) ==
    [url |-> url, ct |-> ct, cl |-> cl, cd |-> cd, body |-> body]

s_jpeg  == <<"i", "m", "a", "g", "e", "/", "j", "p", "e", "g">>
s_png   == <<"i", "m", "a", "g", "e", "/", "p", "n", "g">>
s_plain == <<"t", "e", "x", "t", "/", "p", "l", "a", "i", "n">>

\* a valid image, two chunks
validA      == Resource(<<"h", "t", "t", "p", ":", "/", "/", "h", "/", "a", ".", "j", "p", "g">>, s_jpeg, <<"2">>, None, <<1, 2>>)
\* the same content under another name
validB      == Resource(<<"h", "t", "t", "p", ":", "/", "/", "h", "/", "b", ".", "j", "p", "g">>, s_jpeg, None, None, <<1, 2>>)
\* not an image
invalidType == Resource(<<"h", "t", "t", "p", ":", "/", "/", "h", "/", "n", ".", "t", "x", "t">>, s_plain, <<"1">>, None, <<3>>)
\* two directory URLs with different contents: both derive downloaded_file.jpg
slashC      == Resource(<<"h", "t", "t", "p", ":", "/", "/", "h", "/", "c", "/">>, s_png, None, None, <<1>>)
slashD      == Resource(<<"h", "t", "t", "p", ":", "/", "/", "h", "/", "d", "/">>, s_png, None, None, <<2>>)
\* an image whose name is the temp name of validA
tempNamed   == Resource(<<"h", "t", "t", "p", ":", "/", "/", "h", "/", "a", ".", "j", "p", "g", ".", "t", "e", "m", "p">>, s_jpeg, <<"1">>, None, <<3>>)

\* an image served under a script name
scriptJs    == Resource(<<"h", "t", "t", "p", ":", "/", "/", "h", "/", "s", "c", "r", "i", "p", "t", ".", "j", "s">>, s_png, <<"1">>, None, <<3>>)
\* an image declaring 21 MiB
tooLarge    == Resource(<<"h", "t", "t", "p", ":", "/", "/", "h", "/", "b", "i", "g", ".", "p", "n", "g">>, s_png, <<"2", "2", "0", "2", "0", "0", "9", "6">>, None, <<3>>)

\* the content of validA under the temp name of validA
tempTwin    == Resource(<<"h", "t", "t", "p", ":", "/", "/", "h", "/", "a", ".", "j", "p", "g", ".", "t", "e", "m", "p">>, s_jpeg, <<"2">>, None, <<1, 2>>)

\* what the server has in one run: one of these sets
ResourceSets ==
    {{validA, invalidType, tempNamed},
     {validB, slashC, slashD},
     {validA, scriptJs, tooLarge},
     {validA, validB, tempTwin}}

\* -------------------------------------------------------------------- state
Threads    == {1, 2}
\* main() is the only caller: one thread runs download_file, URL after URL
MainThread == 1

VARIABLES
    downloaded_hashes,  \* self.downloaded_hashes
    fs,                 \* the file system: path -> content, for the files that exist
    resources,          \* the resources the server has in this run
    budget,             \* invocations the caller has still to make
    history,            \* the completed invocations, in order
    promoted,           \* history: the (path, digest) pairs os.rename has promoted
    pc,                 \* per thread: position in download_file
    cur,                \* per thread: the resource behind the url argument
    headers,            \* per thread: head_response.headers
    filename,           \* per thread: filename
    stream,             \* per thread: chunks response.iter_content has still to yield
    pos,                \* per thread: offset of the open temp file handle
    file_hash,          \* per thread: file_hash
    reqs,               \* per thread: requests issued by this invocation
    exc,                \* per thread: the exception in flight
    outcome,            \* per thread: how the invocation ended
    fs0,                \* per thread: fs when the invocation started
    hashes0             \* per thread: downloaded_hashes when the invocation started

shared == <<downloaded_hashes, fs, resources, budget, history, promoted>>
locals == <<pc, cur, headers, filename, stream, pos, file_hash, reqs, exc, outcome,
            fs0, hashes0>>
vars   == <<downloaded_hashes, fs, resources, budget, history, promoted,
            pc, cur, headers, filename, stream, pos, file_hash, reqs, exc, outcome,
            fs0, hashes0>>

NoOutcome == [kind |-> "None", why |-> "None", at |-> "None"]
NoExc     == [class |-> "None", at |-> "None"]
\* no response yet: every header absent
NoHeaders == [ct |-> None, cl |-> None, cd |-> None]

\* filepath = os.path.join(self.download_directory, filename)
FilePath(t) == PathJoin(download_directory, filename[t])
\* temp_filepath = f"{filepath}.temp"
TempPath(t) == FilePath(t) \o s_temp

Exists(p) == p \in DOMAIN fs

\* the file system after path p has been given content c
PutFile(files, p, c) ==
    [q \in DOMAIN files \cup {p} |-> IF q = p THEN c ELSE files[q]]
\* the file system after path p has been unlinked
DelFile(files, p) == [q \in DOMAIN files \ {p} |-> files[q]]

InitLocals ==
    /\ pc        = [t \in Threads |-> "idle"]
    /\ cur       = [t \in Threads |-> None]
    /\ headers   = [t \in Threads |-> NoHeaders]
    /\ filename  = [t \in Threads |-> None]
    /\ stream    = [t \in Threads |-> <<>>]
    /\ pos       = [t \in Threads |-> 0]
    /\ file_hash = [t \in Threads |-> None]
    /\ reqs      = [t \in Threads |-> <<>>]
    /\ exc       = [t \in Threads |-> NoExc]
    /\ outcome   = [t \in Threads |-> NoOutcome]
    /\ fs0       = [t \in Threads |-> << >>]
    /\ hashes0   = [t \in Threads |-> {}]

\* FileDownloader() in main(): an empty seen-set, an empty download directory
InitShared ==
    /\ downloaded_hashes = {}
    /\ fs = << >>
    /\ history = <<>>
    /\ promoted = {}

Init ==
    /\ InitShared
    /\ InitLocals
    /\ resources \in ResourceSets
    /\ budget = MaxInvocations

\* ------------------------------------------------------------ download_file
\* the try block is left with exception class c raised at position at
Raise(t, c) ==
    /\ exc' = [exc EXCEPT ![t] = [class |-> c, at |-> pc[t]]]
    /\ pc'  = [pc EXCEPT ![t] = "except"]

\* the invocation returns with outcome o
Return(t, o) ==
    /\ outcome' = [outcome EXCEPT ![t] = o]
    /\ pc'      = [pc EXCEPT ![t] = "done"]
    /\ history' = Append(history, [url |-> cur[t].url, outcome |-> o,
                                   file_hash |-> file_hash[t],
                                   hashes0 |-> hashes0[t]])

\* main(): for url in urls_to_test: downloader.download_file(url)
Start(t) ==
    /\ pc[t] \in {"idle", "done"}
    /\ budget > 0
    /\ \E r \in resources :
          cur' = [cur EXCEPT ![t] = r]
    /\ budget'    = budget - 1
    /\ pc'        = [pc EXCEPT ![t] = "head"]
    /\ headers'   = [headers EXCEPT ![t] = NoHeaders]
    /\ filename'  = [filename EXCEPT ![t] = None]
    /\ stream'    = [stream EXCEPT ![t] = <<>>]
    /\ pos'       = [pos EXCEPT ![t] = 0]
    /\ file_hash' = [file_hash EXCEPT ![t] = None]
    /\ reqs'      = [reqs EXCEPT ![t] = <<>>]
    /\ exc'       = [exc EXCEPT ![t] = NoExc]
    /\ outcome'   = [outcome EXCEPT ![t] = NoOutcome]
    /\ fs0'       = [fs0 EXCEPT ![t] = fs]
    /\ hashes0'   = [hashes0 EXCEPT ![t] = downloaded_hashes]
    /\ UNCHANGED <<downloaded_hashes, fs, resources, history, promoted>>

\* requests.head(url, timeout=5); raise_for_status() passes
HeadOk(t) ==
    /\ pc[t] = "head"
    /\ reqs'    = [reqs EXCEPT ![t] = Append(@, "HEAD")]
    /\ headers' = [headers EXCEPT ![t] =
                      [ct |-> cur[t].ct, cl |-> cur[t].cl, cd |-> cur[t].cd]]
    /\ pc'      = [pc EXCEPT ![t] = "policy"]
    /\ UNCHANGED <<shared, cur, filename, stream, pos, file_hash, exc, outcome,
                   fs0, hashes0>>

\* requests.head raises, or raise_for_status() raises HTTPError
HeadFail(t) ==
    /\ pc[t] = "head"
    /\ reqs' = [reqs EXCEPT ![t] = Append(@, "HEAD")]
    /\ Raise(t, "RequestException")
    /\ UNCHANGED <<shared, cur, headers, filename, stream, pos, file_hash, outcome,
                   fs0, hashes0>>

\* Precautions 1 to 3; filename is assigned once Precautions 1 and 2 have passed
PolicyCheck(t) ==
    /\ pc[t] = "policy"
    /\ LET verdict == Policy(headers[t], cur[t].url)
           name    == GetFilename(headers[t], cur[t].url)
       IN  CASE verdict = "Accept" ->
                  /\ filename' = [filename EXCEPT ![t] = name]
                  /\ pc' = [pc EXCEPT ![t] = "get"]
                  /\ UNCHANGED <<exc, outcome, history>>
             [] verdict = "ValueError" ->
                  /\ Raise(t, "ValueError")
                  /\ UNCHANGED <<filename, outcome, history>>
             [] verdict = "DangerousExtension" ->
                  /\ filename' = [filename EXCEPT ![t] = name]
                  /\ Return(t, [kind |-> "Rejected", why |-> verdict, at |-> "policy"])
                  /\ UNCHANGED exc
             [] OTHER ->
                  /\ Return(t, [kind |-> "Rejected", why |-> verdict, at |-> "policy"])
                  /\ UNCHANGED <<filename, exc>>
    /\ UNCHANGED <<downloaded_hashes, fs, resources, budget, promoted,
                   cur, headers, stream, pos, file_hash, reqs, fs0, hashes0>>

\* requests.get(url, stream=True, timeout=10); raise_for_status() passes
GetOk(t) ==
    /\ pc[t] = "get"
    /\ reqs'   = [reqs EXCEPT ![t] = Append(@, "GET")]
    /\ stream' = [stream EXCEPT ![t] = cur[t].body]
    /\ pc'     = [pc EXCEPT ![t] = "open"]
    /\ UNCHANGED <<shared, cur, headers, filename, pos, file_hash, exc, outcome,
                   fs0, hashes0>>

\* a failed GET that is tried again instead of raising
GetFailRetries(t) ==
    /\ pc[t] = "get"
    /\ reqs' = [reqs EXCEPT ![t] = Append(@, "GET")]
    /\ UNCHANGED <<shared, pc, cur, headers, filename, stream, pos, file_hash, exc,
                   outcome, fs0, hashes0>>

\* requests.get raises, or raise_for_status() raises HTTPError
GetFail(t) ==
    /\ pc[t] = "get"
    /\ reqs' = [reqs EXCEPT ![t] = Append(@, "GET")]
    /\ Raise(t, "RequestException")
    /\ UNCHANGED <<shared, cur, headers, filename, stream, pos, file_hash, outcome,
                   fs0, hashes0>>

\* open(temp_filepath, 'wb'): creates the file or truncates it
OpenTemp(t) ==
    /\ pc[t] = "open"
    /\ fs'  = PutFile(fs, TempPath(t), <<>>)
    /\ pos' = [pos EXCEPT ![t] = 0]
    /\ pc'  = [pc EXCEPT ![t] = "write"]
    /\ UNCHANGED <<downloaded_hashes, resources, budget, history, promoted,
                   cur, headers, filename, stream, file_hash, reqs, exc, outcome,
                   fs0, hashes0>>

\* open(temp_filepath, 'wb') raises OSError
OpenTempFail(t) ==
    /\ pc[t] = "open"
    /\ Raise(t, "OSError")
    /\ UNCHANGED <<shared, cur, headers, filename, stream, pos, file_hash, reqs,
                   outcome, fs0, hashes0>>

\* the content of a file after chunk c was written at offset o
WriteAt(content, o, c) ==
    [i \in 1..(IF o + 1 > Len(content) THEN o + 1 ELSE Len(content)) |->
        IF i = o + 1 THEN c ELSE IF i <= Len(content) THEN content[i] ELSE 0]

\* one turn of: for chunk in response.iter_content(chunk_size=8192): f.write(chunk)
WriteChunk(t) ==
    /\ pc[t] = "write"
    /\ stream[t] # <<>>
    /\ fs' = PutFile(fs, TempPath(t),
                     WriteAt(IF Exists(TempPath(t)) THEN fs[TempPath(t)] ELSE <<>>,
                             pos[t], Head(stream[t])))
    /\ pos'    = [pos EXCEPT ![t] = @ + 1]
    /\ stream' = [stream EXCEPT ![t] = Tail(@)]
    /\ UNCHANGED <<downloaded_hashes, resources, budget, history, promoted,
                   pc, cur, headers, filename, file_hash, reqs, exc, outcome,
                   fs0, hashes0>>

\* the stream is exhausted: the loop and the with block end
WriteDone(t) ==
    /\ pc[t] = "write"
    /\ stream[t] = <<>>
    /\ pc' = [pc EXCEPT ![t] = "hash"]
    /\ UNCHANGED <<shared, cur, headers, filename, stream, pos, file_hash, reqs,
                   exc, outcome, fs0, hashes0>>

\* iter_content raises (the connection breaks mid-body)
StreamFail(t) ==
    /\ pc[t] = "write"
    /\ Raise(t, "RequestException")
    /\ UNCHANGED <<shared, cur, headers, filename, stream, pos, file_hash, reqs,
                   outcome, fs0, hashes0>>

\* f.write raises OSError
WriteFail(t) ==
    /\ pc[t] = "write"
    /\ stream[t] # <<>>
    /\ Raise(t, "OSError")
    /\ UNCHANGED <<shared, cur, headers, filename, stream, pos, file_hash, reqs,
                   outcome, fs0, hashes0>>

\* FileDownloader._calculate_hash(filepath): the digest of the file
CalculateHash(filepath) == Sha256(fs[filepath])

\* file_hash = self._calculate_hash(temp_filepath), the file is read
HashOk(t) ==
    /\ pc[t] = "hash"
    /\ Exists(TempPath(t))
    /\ file_hash' = [file_hash EXCEPT ![t] = CalculateHash(TempPath(t))]
    /\ pc' = [pc EXCEPT ![t] = "check"]
    /\ UNCHANGED <<shared, cur, headers, filename, stream, pos, reqs, exc, outcome,
                   fs0, hashes0>>

\* file_hash = self._calculate_hash(temp_filepath), IOError: None is returned
HashFail(t) ==
    /\ pc[t] = "hash"
    /\ file_hash' = [file_hash EXCEPT ![t] = None]
    /\ pc' = [pc EXCEPT ![t] = "check"]
    /\ UNCHANGED <<shared, cur, headers, filename, stream, pos, reqs, exc, outcome,
                   fs0, hashes0>>

\* if file_hash in self.downloaded_hashes
CheckSeen(t) ==
    /\ pc[t] = "check"
    /\ pc' = [pc EXCEPT ![t] =
                IF file_hash[t] \in downloaded_hashes THEN "remove" ELSE "add"]
    /\ UNCHANGED <<shared, cur, headers, filename, stream, pos, file_hash, reqs,
                   exc, outcome, fs0, hashes0>>

\* the seen-set assigned instead of extended
AddHashReplaces(t) ==
    /\ pc[t] = "add"
    /\ downloaded_hashes' = {file_hash[t]}
    /\ pc' = [pc EXCEPT ![t] = "rename"]
    /\ UNCHANGED <<fs, resources, budget, history, promoted,
                   cur, headers, filename, stream, pos, file_hash, reqs, exc,
                   outcome, fs0, hashes0>>

\* the else branch without self.downloaded_hashes.add(file_hash)
AddHashForgets(t) ==
    /\ pc[t] = "add"
    /\ pc' = [pc EXCEPT ![t] = "rename"]
    /\ UNCHANGED <<shared, cur, headers, filename, stream, pos, file_hash, reqs,
                   exc, outcome, fs0, hashes0>>

\* self.downloaded_hashes.add(file_hash)
AddHash(t) ==
    /\ pc[t] = "add"
    /\ downloaded_hashes' = downloaded_hashes \cup {file_hash[t]}
    /\ pc' = [pc EXCEPT ![t] = "rename"]
    /\ UNCHANGED <<fs, resources, budget, history, promoted,
                   cur, headers, filename, stream, pos, file_hash, reqs, exc,
                   outcome, fs0, hashes0>>

\* os.rename(temp_filepath, filepath): replaces filepath when it exists
Rename(t) ==
    /\ pc[t] = "rename"
    /\ Exists(TempPath(t))
    /\ fs' = PutFile(DelFile(fs, TempPath(t)), FilePath(t), fs[TempPath(t)])
    /\ promoted' = promoted \cup
                     {[path |-> FilePath(t), digest |-> Sha256(fs[TempPath(t)])]}
    /\ Return(t, [kind |-> "Saved", why |-> "None", at |-> "rename"])
    /\ UNCHANGED <<downloaded_hashes, resources, budget,
                   cur, headers, filename, stream, pos, file_hash, reqs, exc,
                   fs0, hashes0>>

\* os.rename raises OSError
RenameFail(t) ==
    /\ pc[t] = "rename"
    /\ Raise(t, "OSError")
    /\ UNCHANGED <<shared, cur, headers, filename, stream, pos, file_hash, reqs,
                   outcome, fs0, hashes0>>

\* the duplicate branch without os.remove(temp_filepath)
RemoveKeepsFile(t) ==
    /\ pc[t] = "remove"
    /\ Return(t, [kind |-> "Duplicate", why |-> "None", at |-> "remove"])
    /\ UNCHANGED <<downloaded_hashes, fs, resources, budget, promoted,
                   cur, headers, filename, stream, pos, file_hash, reqs, exc,
                   fs0, hashes0>>

\* os.remove(temp_filepath); return
Remove(t) ==
    /\ pc[t] = "remove"
    /\ Exists(TempPath(t))
    /\ fs' = DelFile(fs, TempPath(t))
    /\ Return(t, [kind |-> "Duplicate", why |-> "None", at |-> "remove"])
    /\ UNCHANGED <<downloaded_hashes, resources, budget, promoted,
                   cur, headers, filename, stream, pos, file_hash, reqs, exc,
                   fs0, hashes0>>

\* os.remove raises OSError
RemoveFail(t) ==
    /\ pc[t] = "remove"
    /\ Raise(t, "OSError")
    /\ UNCHANGED <<shared, cur, headers, filename, stream, pos, file_hash, reqs,
                   outcome, fs0, hashes0>>

\* the exception classes of the model and the two except clauses
RequestExceptions == {"RequestException"}
ExceptionClasses  == {"RequestException", "OSError", "ValueError"}

\* download_file with the "except Exception" clause missing
HandlerRequestsOnly(c) ==
    IF c \in RequestExceptions THEN "Connection error" ELSE "propagated"

\* which except clause of download_file takes exception class c
Handler(c) ==
    IF c \in RequestExceptions THEN "Connection error"
    ELSE IF c \in ExceptionClasses THEN "An unexpected error occurred"
    ELSE "propagated"

\* except requests.exceptions.RequestException / except Exception
Except(t) ==
    /\ pc[t] = "except"
    /\ IF Handler(exc[t].class) = "propagated"
       THEN /\ pc' = [pc EXCEPT ![t] = "propagated"]
            /\ UNCHANGED <<outcome, history>>
       ELSE Return(t, [kind |-> "Failed", why |-> exc[t].class, at |-> exc[t].at])
    /\ UNCHANGED <<downloaded_hashes, fs, resources, budget, promoted,
                   cur, headers, filename, stream, pos, file_hash, reqs, exc,
                   fs0, hashes0>>

Step(t) ==
    \/ Start(t)
    \/ HeadOk(t)
    \/ HeadFail(t)
    \/ PolicyCheck(t)
    \/ GetOk(t)
    \/ GetFail(t)
    \/ OpenTemp(t)
    \/ OpenTempFail(t)
    \/ WriteChunk(t)
    \/ WriteDone(t)
    \/ StreamFail(t)
    \/ WriteFail(t)
    \/ HashOk(t)
    \/ HashFail(t)
    \/ CheckSeen(t)
    \/ AddHash(t)
    \/ Rename(t)
    \/ RenameFail(t)
    \/ Remove(t)
    \/ RemoveFail(t)
    \/ Except(t)

Next == Step(MainThread)

Spec == Init /\ [][Next]_vars

\* ------------------------------------------------- single-resource runs
\* the URLs, Content-Type, Content-Length and Content-Disposition values a
\* probe is drawn from (None: header absent; "^2": a superscript two)
ProbeUrls ==
    {<<"h", "t", "t", "p", ":", "/", "/", "h", "/", "a", ".", "j", "p", "g">>,
     <<"h", "t", "t", "p", ":", "/", "/", "h", "/", "s", ".", "j", "s">>,
     <<"h", "t", "t", "p", ":", "/", "/", "h", "/", "S", ".", "J", "S">>,
     <<"h", "t", "t", "p", ":", "/", "/", "h", "/", "x", ".", "e", "x", "e">>,
     <<"h", "t", "t", "p", ":", "/", "/", "h", "/", "r", ".", "b", "a", "t">>,
     <<"h", "t", "t", "p", ":", "/", "/", "h", "/", "i", ".", "s", "h">>,
     <<"h", "t", "t", "p", ":", "/", "/", "h", "/", "d", "/">>,
     <<"h", "t", "t", "p", ":", "/", "/", "h", "/", "p">>,
     <<"h", "t", "t", "p", ":", "/", "/", "h">>,
     <<"h", "t", "t", "p", ":", "/", "/", "h", "/", "a", ".", "j", "p", "g", "?", "x", "=", "b", ".", "j", "s">>,
     <<"h", "t", "t", "p", ":", "/", "/", "h", "/", "a", ".", "j", "s", ";", "v", "=", "1">>}
ProbeContentTypes ==
    {None,
     <<"i", "m", "a", "g", "e", "/", "p", "n", "g">>,
     <<"t", "e", "x", "t", "/", "p", "l", "a", "i", "n">>,
     <<"I", "m", "a", "g", "e", "/", "p", "n", "g">>,
     <<"i", "m", "a", "g", "e", "/">>}
ProbeContentLengths ==
    {None,
     <<>>,
     <<"0">>,
     <<"2", "0", "9", "7", "1", "5", "2", "0">>,
     <<"2", "0", "9", "7", "1", "5", "2", "1">>,
     <<"2", "2", "0", "2", "0", "0", "9", "6">>,
     <<"a", "b", "c">>,
     <<"-", "1">>,
     <<"^2">>}
ProbeContentDispositions ==
    {None,
     <<>>,
     <<"a", "t", "t", "a", "c", "h", "m", "e", "n", "t", ";", " ", "f", "i", "l", "e", "n", "a", "m", "e", "=", "\"", "c", ".", "j", "p", "g", "\"">>,
     <<"f", "i", "l", "e", "n", "a", "m", "e", "=", "x", ".", "e", "x", "e">>,
     <<"a", "t", "t", "a", "c", "h", "m", "e", "n", "t", ";", " ", "f", "i", "l", "e", "n", "a", "m", "e", "=", "'", "v", ".", "j", "s", "'">>,
     <<"i", "n", "l", "i", "n", "e">>,
     <<"a", "t", "t", "a", "c", "h", "m", "e", "n", "t", ";", " ", "f", "i", "l", "e", "n", "a", "m", "e", "=", "\"", "a", ".", "j", "p", "g", "\"", ";", " ", "s", "i", "z", "e", "=", "1">>,
     <<"f", "i", "l", "e", "n", "a", "m", "e", "=", "a", ".", "j", "s", ";", " ", "f", "i", "l", "e", "n", "a", "m", "e", "=", "b", ".", "j", "p", "g">>}

ProbeResources ==
    {Resource(u, ct, cl, cd, <<1>>) :
        u \in ProbeUrls, ct \in ProbeContentTypes,
        cl \in ProbeContentLengths, cd \in ProbeContentDispositions}

\* one downloader, one resource of any probe shape, fetched repeatedly
InitProbe ==
    /\ InitShared
    /\ InitLocals
    /\ resources \in {{r} : r \in ProbeResources}
    /\ budget = MaxProbeInvocations

SpecProbe == InitProbe /\ [][Next]_vars

\* ------------------------------------------------- two interleaved callers
\* number of invocations the two callers make together
MaxConcInvocations == 2

\* one downloader shared by two callers, one content under two names
InitConc ==
    /\ InitShared
    /\ InitLocals
    /\ resources = {validA, validB}
    /\ budget = MaxConcInvocations

InFlight(t) == pc[t] \notin {"idle", "done"}

\* the callers never fetch one URL at the same time: each invocation has a
\* temp file of its own, and downloaded_hashes is all they share
DistinctUrls ==
    \A t, u \in Threads :
        (t # u /\ InFlight(t) /\ InFlight(u)) => cur[t].url # cur[u].url

\* a caller starts its next URL, one no other caller is fetching
StartConc(t) == Start(t) /\ DistinctUrls'

StepConc(t) ==
    \/ StartConc(t)
    \/ HeadOk(t)
    \/ HeadFail(t)
    \/ PolicyCheck(t)
    \/ GetOk(t)
    \/ GetFail(t)
    \/ OpenTemp(t)
    \/ OpenTempFail(t)
    \/ WriteChunk(t)
    \/ WriteDone(t)
    \/ StreamFail(t)
    \/ WriteFail(t)
    \/ HashOk(t)
    \/ HashFail(t)
    \/ CheckSeen(t)
    \/ AddHash(t)
    \/ Rename(t)
    \/ RenameFail(t)
    \/ Remove(t)
    \/ RemoveFail(t)
    \/ Except(t)

\* download_file holds no lock: the steps of the two invocations interleave
NextConc == \E t \in Threads : StepConc(t)

SpecConc == InitConc /\ [][NextConc]_vars

\* =================================================================== claims
Range(seq) == {seq[i] : i \in 1..Len(seq)}
Done(t)    == pc[t] = "done"
\* the HEAD request of the invocation has returned its headers
Probed(t)  == pc[t] \notin {"idle", "head"} /\ exc[t].at # "head"
\* the policy stage of the invocation is behind it
Decided(t) == Probed(t) /\ pc[t] # "policy"
\* the invocation went on to the transfer
ReachedTransfer(t) == pc[t] = "get" \/ "GET" \in Range(reqs[t])

s_JS == <<".", "J", "S">>
AllAsciiDigits(s) == s # None /\ Len(s) > 0 /\ \A i \in 1..Len(s) : s[i] \in AsciiDigits
\* the declared length as the specification reads it: missing or non-numeric is 0
DeclaredLength(h) == IF AllAsciiDigits(h.cl) THEN DecimalValue(h.cl) ELSE 0
ImageType(h) == h.ct # None /\ StartsWith(h.ct, s_image)
DenylistedName(h, u) ==
    \/ EndsWith(GetFilename(h, u), s_exe)
    \/ EndsWith(GetFilename(h, u), s_bat)
    \/ EndsWith(GetFilename(h, u), s_sh)
    \/ EndsWith(GetFilename(h, u), s_js)
\* the three rejection conditions of the policy
ProbeRejected(h, u) ==
    \/ ~ImageType(h)
    \/ DeclaredLength(h) > 20 * 1024 * 1024
    \/ DenylistedName(h, u)

\* C1: when no invocation is in progress, the seen-set holds exactly the
\* digests of the files that were promoted to a final path, it never holds
\* None, and an invocation that ended Rejected, Duplicate or Failed has left
\* the seen-set as it found it.
C1_SeenIffPromoted ==
    \A t \in Threads : Done(t) =>
        /\ downloaded_hashes = {e.digest : e \in promoted}
        /\ None \notin downloaded_hashes
        /\ outcome[t].kind \in {"Rejected", "Duplicate", "Failed"}
              => downloaded_hashes = hashes0[t]

\* the last two completed invocations fetched the same URL, both got through
\* policy, transfer, hashing and finalize, and both hashed the same content
LastTwoClean ==
    /\ Len(history) >= 2
    /\ LET a == history[Len(history) - 1]
           b == history[Len(history)]
       IN  /\ a.url = b.url
           /\ a.outcome.kind \in {"Saved", "Duplicate"}
           /\ b.outcome.kind \in {"Saved", "Duplicate"}
           /\ a.file_hash # None
           /\ a.file_hash = b.file_hash

\* one Saved then one Duplicate, one file at the final path, one new hash
SavedThenDuplicate(t) ==
    LET a == history[Len(history) - 1]
        b == history[Len(history)]
    IN  /\ a.outcome.kind = "Saved"
        /\ b.outcome.kind = "Duplicate"
        /\ Exists(FilePath(t))
        /\ fs[FilePath(t)] = cur[t].body
        /\ ~Exists(TempPath(t))
        /\ Cardinality(downloaded_hashes \ a.hashes0) = 1

C3_NoTempLeft ==
    \A t \in Threads : (Done(t) /\ filename[t] # None) => ~Exists(TempPath(t))

\* C4: an invocation whose probe is rejected by policy (type, declared
\* length or denylisted extension) issues no GET and leaves the file system
\* and the seen-set exactly as they were when it started.
C4_RejectionHasNoEffects ==
    \A t \in Threads :
        (Probed(t) /\ ProbeRejected(headers[t], cur[t].url)) =>
            /\ "GET" \notin Range(reqs[t])
            /\ pc[t] \notin {"get", "open", "write", "hash", "check", "add",
                             "rename", "remove"}
            /\ fs = fs0[t]
            /\ downloaded_hashes = hashes0[t]

\* a rejection on a downloader that already holds a saved file and its hash
C4_Witness ==
    \E t \in Threads :
        /\ Done(t)
        /\ outcome[t].kind = "Rejected"
        /\ outcome[t].why = "TooLarge"
        /\ ProbeRejected(headers[t], cur[t].url)
        /\ reqs[t] = <<"HEAD">>
        /\ fs0[t] # << >>
        /\ hashes0[t] # {}

\* C5: with an image content-type and a name that is not denylisted, the
\* probe is rejected as TooLarge exactly when the declared length (0 when
\* missing or non-numeric) exceeds 20 MiB, and otherwise goes on to transfer.
C5_SizeGate ==
    \A t \in Threads :
        (/\ Decided(t)
         /\ ImageType(headers[t])
         /\ ~DenylistedName(headers[t], cur[t].url)) =>
            IF DeclaredLength(headers[t]) > 20 * 1024 * 1024
            THEN Done(t) /\ outcome[t].kind = "Rejected" /\ outcome[t].why = "TooLarge"
            ELSE ReachedTransfer(t)

\* C6: a probe whose derived filename ends in .exe, .bat, .sh or .js never
\* reaches the transfer and never ends Saved or Duplicate, whatever its
\* content-type; a derived filename ending in .JS with an image content-type
\* and a declared length within the ceiling goes on to the transfer.
C6_ExtensionDenylist ==
    \A t \in Threads : Probed(t) =>
        /\ DenylistedName(headers[t], cur[t].url) =>
              /\ ~ReachedTransfer(t)
              /\ fs = fs0[t]
              /\ outcome[t].kind \notin {"Saved", "Duplicate"}
              /\ (/\ Done(t)
                  /\ ImageType(headers[t])
                  /\ headers[t].cl = None \/ AllAsciiDigits(headers[t].cl)
                  /\ DeclaredLength(headers[t]) <= 20 * 1024 * 1024) =>
                       /\ outcome[t].kind = "Rejected"
                       /\ outcome[t].why = "DangerousExtension"
        /\ (/\ Decided(t)
            /\ EndsWith(GetFilename(headers[t], cur[t].url), s_JS)
            /\ ImageType(headers[t])
            /\ AllAsciiDigits(headers[t].cl)
            /\ DecimalValue(headers[t].cl) <= 20 * 1024 * 1024) => ReachedTransfer(t)

C6_Witness ==
    \E t \in Threads :
        /\ Done(t)
        /\ outcome[t].why = "DangerousExtension"
        /\ EndsWith(filename[t], s_js)
        /\ Len(history) >= 2
        /\ history[1].outcome.kind = "Rejected"

\* C7: no failure of any stage leaves download_file as an exception, and
\* after an invocation that ended Failed the caller can start the next URL.
C7_FailureIsolation ==
    \A t \in Threads :
        /\ pc[t] # "propagated"
        /\ pc[t] = "except" => Handler(exc[t].class) # "propagated"
        /\ (Done(t) /\ outcome[t].kind = "Failed" /\ budget > 0) => ENABLED Start(t)

\* a failure of each kind has been survived and a later URL was completed
C7_Witness ==
    /\ Len(history) >= 3
    /\ history[1].outcome.kind = "Failed"
    /\ history[1].outcome.at = "rename"
    /\ history[2].outcome.kind = "Failed"
    /\ history[2].outcome.at = "write"
    /\ history[3].outcome.kind = "Saved"

\* no step of the first three invocations failed
FirstThreeClean ==
    \A i \in 1..3 :
        /\ history[i].outcome.kind # "Failed"
        /\ history[i].outcome.kind \in {"Saved", "Duplicate"} => history[i].file_hash # None

FinalPaths == {e.path : e \in promoted}

\* C9: an invocation that failed on a network error (probe, transfer request
\* or body stream) has created or modified no file at any final path.
C9_NetworkFailureKeepsFinalPaths ==
    \A t \in Threads :
        (Done(t) /\ outcome[t].kind = "Failed" /\ outcome[t].why = "RequestException") =>
            \A p \in FinalPaths \cup (IF filename[t] = None THEN {} ELSE {FilePath(t)}) :
                /\ Exists(p) <=> p \in DOMAIN fs0[t]
                /\ Exists(p) => fs[p] = fs0[t][p]

\* C10: an invocation whose hash failed (file_hash is None) does not end
\* Saved or Duplicate, and None never enters the seen-set.
C10_HashFailureNotAccepted ==
    /\ None \notin downloaded_hashes
    /\ \A t \in Threads :
          (Done(t) /\ file_hash[t] = None) => outcome[t].kind \notin {"Saved", "Duplicate"}

StageOrder ==
    {<<"idle", "head">>, <<"done", "head">>,
     <<"head", "policy">>, <<"policy", "get">>, <<"policy", "done">>,
     <<"get", "open">>, <<"open", "write">>, <<"write", "hash">>,
     <<"hash", "check">>, <<"check", "add">>, <<"check", "remove">>,
     <<"add", "rename">>, <<"rename", "done">>, <<"remove", "done">>,
     <<"head", "except">>, <<"policy", "except">>, <<"get", "except">>,
     <<"open", "except">>, <<"write", "except">>, <<"rename", "except">>,
     <<"remove", "except">>, <<"except", "done">>}

Finalizing == {"check", "add", "rename", "remove"}

\* every step keeps to the stage order and an invocation that ends records
\* one terminal outcome
StepsInOrder(t) ==
    /\ pc'[t] # pc[t] => <<pc[t], pc'[t]>> \in StageOrder
    /\ (pc'[t] = "done" /\ pc[t] # "done") =>
          /\ Len(history') = Len(history) + 1
          /\ outcome'[t].kind \in {"Saved", "Duplicate", "Rejected", "Failed"}
          /\ history'[Len(history')].outcome = outcome'[t]
    /\ pc'[t] # "done" => history' = history

\* at the membership test, the add, the rename and the remove, the whole body
\* is in the temp file
BodyWritten(t) ==
    pc'[t] \in Finalizing =>
        /\ stream'[t] = <<>>
        /\ TempPath(t) \in DOMAIN fs'
        /\ fs'[TempPath(t)] = cur[t].body

\* ... and file_hash is the digest of that body
BodyHashed(t) ==
    pc'[t] \in Finalizing => file_hash'[t] = Sha256(cur[t].body)

\* C12: invocations move through the stages in order, the membership test
\* and the rename/remove come only after the whole body was written to the
\* temp file and hashed, and each invocation ends in one terminal outcome.
C12_StageOrdering ==
    [][\A t \in {MainThread} : StepsInOrder(t) /\ BodyWritten(t) /\ BodyHashed(t)]_vars

\* C12 without the hashed part, which holds
C12_OrderingAndBody ==
    [][\A t \in {MainThread} : StepsInOrder(t) /\ BodyWritten(t)]_vars

\* C13: an invocation that ends Duplicate has removed nothing but its temp
\* file: the seen-set is as it was and every file at a final path (the
\* promoted ones and the invocation's own) is as it was; an invocation that
\* ends Saved has added its hash and has its content at its final path.
C13_DuplicateKeepsCommitted ==
    \A t \in Threads :
        /\ (Done(t) /\ outcome[t].kind = "Duplicate" /\ file_hash[t] # None) =>
              /\ downloaded_hashes = hashes0[t]
              /\ ~Exists(TempPath(t))
              /\ \A p \in FinalPaths \cup {FilePath(t)} :
                    /\ Exists(p) <=> p \in DOMAIN fs0[t]
                    /\ Exists(p) => fs[p] = fs0[t][p]
        /\ (Done(t) /\ outcome[t].kind = "Saved" /\ file_hash[t] # None) =>
              /\ downloaded_hashes = hashes0[t] \cup {file_hash[t]}
              /\ file_hash[t] \notin hashes0[t]
              /\ Exists(FilePath(t))
              /\ fs[FilePath(t)] = cur[t].body

\* the invocation has derived its filename from a Content-Disposition that
\* contains "filename="
NamedByDisposition(t) ==
    /\ filename[t] # None
    /\ headers[t].cd # None
    /\ Contains(headers[t].cd, s_filename_eq)

\* everything that follows the first "filename=" in s
AfterFirstFilenameEq(s) ==
    SubSeq(s, Find(s, s_filename_eq) + Len(s_filename_eq), Len(s))

\* s up to the next "filename=", all of s when there is none
UpToNextFilenameEq(s) ==
    IF Contains(s, s_filename_eq) THEN SubSeq(s, 1, Find(s, s_filename_eq) - 1) ELSE s

\* C14 as stated: the filename is the entire substring after the first
\* "filename=" with the quote characters stripped from both ends.
C14_EntireRemainder ==
    \A t \in Threads : NamedByDisposition(t) =>
        filename[t] = Strip(AfterFirstFilenameEq(headers[t].cd), QuoteChars)

\* C14 amended: the filename is the substring after the first "filename=" up
\* to the next "filename=" (or the end of the value), with the quote
\* characters stripped from both ends and nothing else changed.
C14_UpToNextOccurrence ==
    \A t \in Threads : NamedByDisposition(t) =>
        filename[t] = Strip(UpToNextFilenameEq(AfterFirstFilenameEq(headers[t].cd)),
                            QuoteChars)

\* a value with two "filename=" has named a saved file
C14_Witness ==
    \E t \in Threads :
        /\ NamedByDisposition(t)
        /\ Contains(AfterFirstFilenameEq(headers[t].cd), s_filename_eq)
        /\ Done(t)
        /\ outcome[t].kind = "Saved"

\* the invocation has derived its filename with no "filename=" to use
NamedByUrl(t) ==
    /\ filename[t] # None
    /\ headers[t].cd = None \/ ~Contains(headers[t].cd, s_filename_eq)

\* the final segment of a path: its longest suffix without a "/"
FinalSegment(path) ==
    LET starts == {i \in 1..(Len(path) + 1) :
                      \A j \in i..Len(path) : path[j] # "/"}
        first  == CHOOSE i \in starts : \A j \in starts : i <= j
    IN  SubSeq(path, first, Len(path))

\* C15: without a "filename=" in the Content-Disposition, the filename is the
\* final segment of the URL's path when that segment is non-empty and
\* contains a ".", and downloaded_file.jpg otherwise.
C15_FilenameFallback ==
    \A t \in Threads : NamedByUrl(t) =>
        LET segment == FinalSegment(UrlPath(cur[t].url))
        IN  filename[t] = IF segment # <<>> /\ "." \in Range(segment)
                          THEN segment
                          ELSE s_default

\* a URL path ending in a bare slash, a Content-Disposition without
\* "filename=", and the fallback name saved
C15_Witness ==
    \E t \in Threads :
        /\ NamedByUrl(t)
        /\ headers[t].cd # None
        /\ Len(headers[t].cd) > 0
        /\ EndsWith(cur[t].url, <<"/">>)
        /\ filename[t] = s_default
        /\ Done(t)
        /\ outcome[t].kind = "Saved"

\* the invocation has tested its hash and found it absent from the seen-set
ObservedAbsent(t) ==
    /\ file_hash[t] # None
    /\ \/ pc[t] \in {"add", "rename"}
       \/ pc[t] = "except" /\ exc[t].at = "rename"
       \/ pc[t] = "done" /\ outcome[t].at = "rename"

\* C16: two interleaved invocations that transfer the same content never both
\* find its hash absent from the seen-set, so they never both end Saved.
C16_NeverBothAbsent ==
    \A t, u \in Threads :
        (t # u /\ file_hash[t] = file_hash[u]) =>
            /\ ~(ObservedAbsent(t) /\ ObservedAbsent(u))
            /\ ~(/\ Done(t) /\ outcome[t].kind = "Saved"
                 /\ Done(u) /\ outcome[u].kind = "Saved")

\* every completed invocation ran without a failing request or file operation
NothingFailed ==
    \A i \in 1..Len(history) :
        /\ history[i].outcome.kind # "Failed"
        /\ history[i].outcome.kind \in {"Saved", "Duplicate"} => history[i].file_hash # None

\* C17: after invocations in which nothing failed, every hash in the seen-set
\* is the digest of a file that exists at a final path.
C17_SeenHashesOnDisk ==
    (pc[MainThread] \in {"idle", "done"} /\ NothingFailed) =>
        \A h \in downloaded_hashes :
            \E p \in FinalPaths : Exists(p) /\ Sha256(fs[p]) = h

\* the invocation ended without reaching the add of the finalize stage
EndedWithoutAdd(t) ==
    /\ pc'[t] = "done"
    /\ \/ outcome'[t].kind \in {"Rejected", "Duplicate"}
       \/ outcome'[t].kind = "Failed" /\ outcome'[t].at # "rename"

\* C18: no step removes an element from the seen-set; an invocation adds at
\* most one element, and none when it ends Rejected, Duplicate, or Failed
\* before the add.
C18_SeenSetMonotone ==
    [][/\ downloaded_hashes \subseteq downloaded_hashes'
       /\ \A t \in Threads : pc'[t] # "idle" =>
             /\ hashes0'[t] \subseteq downloaded_hashes'
             /\ Cardinality(downloaded_hashes' \ hashes0'[t]) <= 1
             /\ EndedWithoutAdd(t) => downloaded_hashes' = hashes0'[t]]_vars

C18_Witness ==
    /\ Done(MainThread)
    /\ Cardinality(downloaded_hashes) >= 2
    /\ outcome[MainThread].kind = "Failed"
    /\ outcome[MainThread].at = "rename"
    /\ downloaded_hashes # hashes0[MainThread]

====
